---- MODULE Spec2Model ----
(***************************************************************************)
(* A model of utils/rag_chain.py: the PDF document loader, the chunking    *)
(* and persistent index builder, the retriever, the RAG chain and the      *)
(* retrying chat client.                                                   *)
(*                                                                         *)
(* Strings are sequences of atoms.  In a path the atoms "/" and "." are    *)
(* the path separator and the dot; every other atom stands for a run of    *)
(* characters holding neither.  In a text the atoms " " and "\n" are       *)
(* whitespace and every other atom is one character.                       *)
(***************************************************************************)
EXTENDS Integers, Sequences, FiniteSets, TLC

VARIABLES
    \* ---- load_pdf_docs
    dir,            \* the argument of load_pdf_docs
    fs_dir,         \* the directory on disk: [exists, entries]
    loader_pc,      \* "start", "loaded", "returned", "raised"
    documents,      \* the documents load_pdf_docs holds / returns
    loaded_files,   \* the paths handed to PyMuPDFLoader
    loader_error,   \* the exception that left load_pdf_docs, or "none"
    \* ---- load_persistent_retriever, per calling process
    pc,             \* "idle", "check", "open", "build"
    split_docs,     \* the chunks the call has split
    split_from,     \* for each chunk: its parent document and span, and the arguments
    observed,       \* what os.path.exists answered in the call: "none", "present", "absent"
    embedded,       \* how many chunk texts the call has sent to the embedding model
    retriever,      \* the retriever the last call returned, or None
    retrieved,      \* the result of the retriever's last query, or None
    \* ---- <data_root>/vectorstore
    vs_exists,      \* the directory exists
    vs_chunks,      \* the chunks stored in the collection
    vs_origin,      \* how the stored state came about
    \* ---- the chain of load_RAG_chain, with a chat model of load_together_chat_model
    system_prompt,  \* the argument of load_RAG_chain, a template
    chain_pc,       \* "idle", "invoked", "mapped", "calling", "generated", "answered", "failed"
    question,       \* the input of the invocation
    retriever_query, \* what the retriever was invoked with
    retrieved_docs, \* what the retriever returned
    prompt_input,   \* the mapping given to the prompt: [context, question]
    messages,       \* the prompt's messages
    attempts,       \* the attempts the chat client has made for the request
    chain_error,    \* "none", or the kind of failure reported to the caller
    answer          \* the parsed output

loader_vars == <<dir, fs_dir, loader_pc, documents, loaded_files, loader_error>>

index_vars == <<pc, split_docs, split_from, observed, embedded, retriever, retrieved,
                vs_exists, vs_chunks, vs_origin>>

chain_vars == <<system_prompt, chain_pc, question, retriever_query, retrieved_docs,
                prompt_input, messages, attempts, chain_error, answer>>

vars == <<loader_vars, index_vars, chain_vars>>

\* Python's None, where the other values are records.
None == [none |-> TRUE]

Max(S) == CHOOSE x \in S : \A y \in S : y <= x
Min(S) == CHOOSE x \in S : \A y \in S : x <= y

Range(s) == {s[i] : i \in 1..Len(s)}

\* All sequences without repetition that enumerate the set S.
Orderings(S) ==
    {s \in [1..Cardinality(S) -> S] : \A i, j \in 1..Cardinality(S) : s[i] = s[j] => i = j}

RECURSIVE Flatten(_)
Flatten(ss) == IF ss = <<>> THEN <<>> ELSE Head(ss) \o Flatten(Tail(ss))

(***************************************************************************)
(* Python string helpers used by load_pdf_docs (line 76).                  *)
(***************************************************************************)

\* str.rfind(c) + 1: the 1-based index of the last c, 0 when there is none.
rfind(s, c) ==
    LET I == {i \in 1..Len(s) : s[i] = c}
    IN  IF I = {} THEN 0 ELSE Max(I)

\* A mutant of basename: the directory part is kept.
basename_keeps_dir(p) == p

\* os.path.basename(p): what follows the last "/".
basename(p) == SubSeq(p, rfind(p, "/") + 1, Len(p))

\* str.split(c): every c separates; empty pieces are kept.
RECURSIVE split(_, _)
split(s, c) ==
    LET I == {i \in 1..Len(s) : s[i] = c}
    IN  IF I = {} THEN <<s>>
        ELSE LET i == Min(I)
             IN  <<SubSeq(s, 1, i - 1)>> \o split(SubSeq(s, i + 1, Len(s)), c)

\* c.join(parts)
RECURSIVE join(_, _)
join(c, parts) ==
    IF parts = <<>> THEN <<>>
    ELSE IF Len(parts) = 1 THEN parts[1]
    ELSE parts[1] \o c \o join(c, Tail(parts))

\* parts[:n]
take(parts, n) == SubSeq(parts, 1, IF Len(parts) < n THEN Len(parts) ELSE n)

\* '.'.join(os.path.basename(source).split('.')[:2])
rewrite_source(source) == join(<<".">>, take(split(basename(source), "."), 2))

(***************************************************************************)
(* The file system seen by load_pdf_docs.                                  *)
(***************************************************************************)

\* Entries a directory may hold: [name, kind, pages].
PaperA   == [name |-> <<"1234", ".", "5678", ".", "SomeTitle", ".", "pdf">>, kind |-> "file", pages |-> 2]
PaperB   == [name |-> <<"paper", ".", "pdf">>, kind |-> "file", pages |-> 1]
PaperC   == [name |-> <<"pdf">>, kind |-> "file", pages |-> 1]
NotesTxt == [name |-> <<"notes", ".", "txt">>, kind |-> "file", pages |-> 1]
UpperPdf == [name |-> <<"scan", ".", "PDF">>, kind |-> "file", pages |-> 1]
Hidden   == [name |-> <<".", "draft", ".", "pdf">>, kind |-> "file", pages |-> 1]
SubDir   == [name |-> <<"old", ".", "pdf">>, kind |-> "dir", pages |-> 0]
PdfTxt   == [name |-> <<"a", ".", "pdf", ".", "txt">>, kind |-> "file", pages |-> 1]

Entries == {PaperA, PaperB, PaperC, NotesTxt, UpperPdf, Hidden, SubDir, PdfTxt}

Dirs == {<<".">>, <<"data">>, <<"my", ".", "v2", "/", "papers">>}

\* str(Path(dir) / name), as Path.glob yields it.
path_of(d, name) == IF d = <<".">> THEN name ELSE d \o <<"/">> \o name

\* A mutant of the glob: every entry matches.
glob_matches_all(name) == TRUE

\* fnmatch of a name against glob="*.pdf" (line 71): the name ends in ".pdf".
glob_pdf(name) ==
    /\ Len(name) >= 2
    /\ name[Len(name) - 1] = "."
    /\ name[Len(name)] = "pdf"

\* DirectoryLoader keeps the regular files that match and are not hidden.
selected(e) ==
    /\ glob_pdf(e.name)
    /\ e.kind = "file"
    /\ e.name[1] # "."

\* PyMuPDFLoader(path).load(): one document per page; both source and
\* file_path of the metadata are the path.
pdf_pages(d, e) ==
    [i \in 1..e.pages |->
        [page_content |-> <<"t">>,
         metadata |-> [source |-> path_of(d, e.name),
                       file_path |-> path_of(d, e.name),
                       page |-> i - 1]]]

\* A mutant of the directory check: a missing directory globs to nothing.
missing_dir_is_empty(fs) == FALSE

\* DirectoryLoader.load() raises FileNotFoundError when the path is missing.
dir_not_found(fs) == ~fs.exists

LoaderStart ==
    /\ dir \in Dirs
    /\ fs_dir \in [exists : {TRUE}, entries : SUBSET Entries]
                    \cup {[exists |-> FALSE, entries |-> {}]}
    /\ loader_pc = "start"
    /\ documents = <<>>
    /\ loaded_files = {}
    /\ loader_error = "none"

\* Lines 71-72: loader = DirectoryLoader(...); documents = loader.load()
DirectoryLoaderLoad ==
    /\ loader_pc = "start"
    /\ IF dir_not_found(fs_dir)
       THEN /\ loader_pc' = "raised"
            /\ loader_error' = "FileNotFoundError"
            /\ UNCHANGED <<documents, loaded_files>>
       ELSE \E order \in Orderings({e \in fs_dir.entries : selected(e)}) :
                /\ documents' = Flatten([i \in 1..Len(order) |-> pdf_pages(dir, order[i])])
                /\ loaded_files' = {path_of(dir, e.name) : e \in Range(order)}
                /\ loader_pc' = "loaded"
                /\ UNCHANGED loader_error
    /\ UNCHANGED <<dir, fs_dir, index_vars, chain_vars>>

\* Lines 75-78: rewrite every document's source, then return.
RewriteSources ==
    /\ loader_pc = "loaded"
    /\ documents' = [i \in 1..Len(documents) |->
                        [documents[i] EXCEPT
                            !.metadata.source = rewrite_source(documents[i].metadata.source)]]
    /\ loader_pc' = "returned"
    /\ UNCHANGED <<dir, fs_dir, loaded_files, loader_error, index_vars, chain_vars>>

LoaderNext == DirectoryLoaderLoad \/ RewriteSources

(***************************************************************************)
(* RecursiveCharacterTextSplitter(chunk_size, chunk_overlap), lines 81-82, *)
(* with the library's defaults: separators "\n\n", "\n", " ", "", the      *)
(* separator kept at the start of each piece, len as length function and   *)
(* whitespace stripped from merged chunks.  A piece of a text is a span    *)
(* <<lo, hi>> of it: the characters lo .. hi-1.                            *)
(***************************************************************************)

Separators == << <<"\n", "\n">>, <<"\n">>, <<" ">>, <<>> >>

Whitespace == {" ", "\n"}

SpanLen(sp) == sp[2] - sp[1]

SpanText(text, sp) == SubSeq(text, sp[1], sp[2] - 1)

\* re.search(separator, text[lo:hi]) starting at i
MatchAt(text, sep, i, hi) ==
    i + Len(sep) <= hi /\ SubSeq(text, i, i + Len(sep) - 1) = sep

\* The starts of the leftmost non-overlapping matches of sep in the span.
RECURSIVE MatchStarts(_, _, _, _)
MatchStarts(text, sep, from, hi) ==
    IF from + Len(sep) > hi THEN <<>>
    ELSE IF MatchAt(text, sep, from, hi)
         THEN <<from>> \o MatchStarts(text, sep, from + Len(sep), hi)
         ELSE MatchStarts(text, sep, from + 1, hi)

\* _split_text_with_regex(text, separator, keep_separator=True): the pieces
\* between the matches, each but the first starting with the separator; the
\* single characters when the separator is ""; empty pieces dropped.
split_text_with_regex(text, sp, sep) ==
    IF sep = <<>>
    THEN [i \in 1..SpanLen(sp) |-> <<sp[1] + i - 1, sp[1] + i>>]
    ELSE LET cuts == <<sp[1]>> \o MatchStarts(text, sep, sp[1], sp[2]) \o <<sp[2]>>
             raw  == [i \in 1..(Len(cuts) - 1) |-> <<cuts[i], cuts[i + 1]>>]
             NonEmpty(x) == x[2] > x[1]
         IN  SelectSeq(raw, NonEmpty)

\* str.strip() of a span: none (<<>>) when only whitespace is left.
strip(text, sp) ==
    LET I == {i \in sp[1]..(sp[2] - 1) : text[i] \notin Whitespace}
    IN  IF I = {} THEN <<>> ELSE << <<Min(I), Max(I) + 1>> >>

\* _join_docs(current_doc, ""): the pieces are adjacent, so their join is the
\* span from the first to the last; stripped; no chunk when nothing is left.
join_docs(text, cur) ==
    IF cur = <<>> THEN <<>>
    ELSE strip(text, <<cur[1][1], cur[Len(cur)][2]>>)

\* A mutant of the overlap loop: pieces are dropped only until the next one
\* fits, whatever chunk_overlap is.
RECURSIVE pop_front_ignores_overlap(_, _, _, _, _)
pop_front_ignores_overlap(cur, total, len, S, O) ==
    IF total + len > S /\ total > 0
    THEN pop_front_ignores_overlap(Tail(cur), total - SpanLen(cur[1]), len, S, O)
    ELSE [cur |-> cur, total |-> total]

\* The while loop of _merge_splits: drop pieces from the front of the current
\* chunk until what is left is within chunk_overlap and the next piece fits.
RECURSIVE pop_front(_, _, _, _, _)
pop_front(cur, total, len, S, O) ==
    IF total > O \/ (total + len > S /\ total > 0)
    THEN pop_front(Tail(cur), total - SpanLen(cur[1]), len, S, O)
    ELSE [cur |-> cur, total |-> total]

\* The for loop of _merge_splits from piece i on.
RECURSIVE merge_loop(_, _, _, _, _, _, _, _)
merge_loop(text, splits, i, cur, total, docs, S, O) ==
    IF i > Len(splits) THEN docs \o join_docs(text, cur)
    ELSE LET d   == splits[i]
             len == SpanLen(d)
         IN  IF total + len > S /\ cur # <<>>
             THEN LET p == pop_front(cur, total, len, S, O)
                  IN  merge_loop(text, splits, i + 1, Append(p.cur, d), p.total + len,
                                 docs \o join_docs(text, cur), S, O)
             ELSE merge_loop(text, splits, i + 1, Append(cur, d), total + len, docs, S, O)

merge_splits(text, splits, S, O) == merge_loop(text, splits, 1, <<>>, 0, <<>>, S, O)

\* The index in Separators of the separator _split_text picks from index k
\* on: the first that is "" or occurs in the span.
pick_separator(text, sp, k) ==
    Min({j \in k..Len(Separators) :
            \/ Separators[j] = <<>>
            \/ MatchStarts(text, Separators[j], sp[1], sp[2]) # <<>>})

\* if self._length_function(s) < self._chunk_size
is_good(sp, S) == SpanLen(sp) < S

\* _split_text(text, separators[k:]) and its loop over the pieces, from piece
\* i on; nk is the index of the first of new_separators, 0 when it is empty.
RECURSIVE split_text(_, _, _, _, _)
RECURSIVE split_loop(_, _, _, _, _, _, _, _)
split_loop(text, splits, i, good, final, nk, S, O) ==
    LET flushed == IF good = <<>> THEN final ELSE final \o merge_splits(text, good, S, O)
    IN  IF i > Len(splits) THEN flushed
        ELSE IF is_good(splits[i], S)
             THEN split_loop(text, splits, i + 1, Append(good, splits[i]), final, nk, S, O)
             ELSE IF nk = 0
                  THEN split_loop(text, splits, i + 1, <<>>, Append(flushed, splits[i]), nk, S, O)
                  ELSE split_loop(text, splits, i + 1, <<>>,
                                  flushed \o split_text(text, splits[i], nk, S, O), nk, S, O)

split_text(text, sp, k, S, O) ==
    LET j  == pick_separator(text, sp, k)
        nk == IF Separators[j] = <<>> THEN 0 ELSE j + 1
    IN  split_loop(text, split_text_with_regex(text, sp, Separators[j]), 1, <<>>, <<>>, nk, S, O)

\* The spans of the chunks of one text.
chunk_spans_of(text, S, O) == split_text(text, <<1, Len(text) + 1>>, 1, S, O)

\* create_documents: one Document per chunk, with a copy of the parent's
\* metadata.
create_documents(doc, spans) ==
    [i \in 1..Len(spans) |->
        [page_content |-> SpanText(doc.page_content, spans[i]),
         metadata |-> doc.metadata]]

\* text_splitter.split_documents(documents)
split_documents(docs, S, O) ==
    Flatten([d \in 1..Len(docs) |->
                create_documents(docs[d], chunk_spans_of(docs[d].page_content, S, O))])

\* For every chunk of split_documents, its parent and its span in the parent.
split_origins(docs, S, O) ==
    Flatten([d \in 1..Len(docs) |->
                LET spans == chunk_spans_of(docs[d].page_content, S, O)
                IN  [i \in 1..Len(spans) |-> [doc |-> d, span |-> spans[i]]]])

(***************************************************************************)
(* load_persistent_retriever (lines 80-101) and the retriever it returns.  *)
(***************************************************************************)

Procs == {1, 2}

Doc(text, src) == [page_content |-> text, metadata |-> [source |-> src]]

SrcA == <<"1234", ".", "5678">>
SrcB == <<"paper", ".", "pdf">>

DocX == Doc(<<"a", "b", "c", "d", "e">>, SrcA)
DocY == Doc(<<"a", " ", "b", " ", "c">>, SrcB)

\* The arguments the index specifications call load_persistent_retriever with.
IndexInputs ==
    {[documents |-> <<DocX>>,       chunk_size |-> 1, chunk_overlap |-> 0],
     [documents |-> <<DocX, DocY>>, chunk_size |-> 3, chunk_overlap |-> 1],
     [documents |-> <<>>,           chunk_size |-> 2, chunk_overlap |-> 0]}

\* What an index directory left by an earlier run may hold.
StaleChunks == <<Doc(<<"o", "l", "d">>, SrcB), Doc(<<"o">>, SrcB)>>

\* Lines 81-85: split the documents, join the path.
Call(p, in) ==
    /\ pc[p] = "idle"
    /\ split_docs' = [split_docs EXCEPT
                        ![p] = split_documents(in.documents, in.chunk_size, in.chunk_overlap)]
    /\ split_from' = [split_from EXCEPT
                        ![p] = [args |-> in,
                                origins |-> split_origins(in.documents, in.chunk_size,
                                                          in.chunk_overlap)]]
    /\ observed' = [observed EXCEPT ![p] = "none"]
    /\ embedded' = [embedded EXCEPT ![p] = 0]
    /\ pc' = [pc EXCEPT ![p] = "check"]
    /\ UNCHANGED <<retriever, retrieved, vs_exists, vs_chunks, vs_origin, loader_vars, chain_vars>>

\* A mutant of the existence check: the check claims the directory, so a
\* second caller that arrives while the first one builds sees it as present.
PathExistsClaims(p) ==
    /\ pc[p] = "check"
    /\ LET found == vs_exists \/ \E q \in Procs \ {p} : pc[q] = "build"
       IN  /\ observed' = [observed EXCEPT ![p] = IF found THEN "present" ELSE "absent"]
           /\ pc' = [pc EXCEPT ![p] = IF found THEN "open" ELSE "build"]
    /\ UNCHANGED <<split_docs, split_from, embedded, retriever, retrieved,
                   vs_exists, vs_chunks, vs_origin, loader_vars, chain_vars>>

\* A mutant of the existence check: the build branch is always taken.
PathExistsAlwaysBuilds(p) ==
    /\ pc[p] = "check"
    /\ observed' = [observed EXCEPT ![p] = "absent"]
    /\ pc' = [pc EXCEPT ![p] = "build"]
    /\ UNCHANGED <<split_docs, split_from, embedded, retriever, retrieved,
                   vs_exists, vs_chunks, vs_origin, loader_vars, chain_vars>>

\* Line 88: if os.path.exists(vectorstore_persist_directory)
PathExists(p) ==
    /\ pc[p] = "check"
    /\ observed' = [observed EXCEPT ![p] = IF vs_exists THEN "present" ELSE "absent"]
    /\ pc' = [pc EXCEPT ![p] = IF vs_exists THEN "open" ELSE "build"]
    /\ UNCHANGED <<split_docs, split_from, embedded, retriever, retrieved,
                   vs_exists, vs_chunks, vs_origin, loader_vars, chain_vars>>

\* VectorStore.as_retriever(**kwargs) builds VectorStoreRetriever(**kwargs),
\* whose fields are search_type and search_kwargs; any other keyword is
\* dropped.
as_retriever(kwargs) ==
    [search_type   |-> IF "search_type" \in DOMAIN kwargs
                       THEN kwargs.search_type ELSE "similarity",
     search_kwargs |-> IF "search_kwargs" \in DOMAIN kwargs
                       THEN kwargs.search_kwargs ELSE <<>>]

\* The default k of Chroma.similarity_search, in force when search_kwargs
\* names no k.
DEFAULT_K == 4

\* The number of chunks a query of the retriever asks the index for.
top_k(r) == IF "k" \in DOMAIN r.search_kwargs THEN r.search_kwargs.k ELSE DEFAULT_K

\* Line 99: retriever = vectorstore.as_retriever(fetch_k=3)
make_retriever == as_retriever([fetch_k |-> 3])

\* A mutant of the open branch: the split chunks are embedded and added to
\* the index that was opened.
OpenStoreReembeds(p) ==
    /\ pc[p] = "open"
    /\ embedded' = [embedded EXCEPT ![p] = Len(split_docs[p])]
    /\ vs_chunks' = vs_chunks \o split_docs[p]
    /\ vs_exists' = TRUE
    /\ retriever' = [retriever EXCEPT ![p] = make_retriever]
    /\ pc' = [pc EXCEPT ![p] = "idle"]
    /\ UNCHANGED <<split_docs, split_from, observed, retrieved, vs_origin, loader_vars, chain_vars>>

\* Lines 89-90, 99-101: open the directory as the index, return a retriever.
\* The Chroma client creates the directory when it has vanished since the
\* check.
OpenStore(p) ==
    /\ pc[p] = "open"
    /\ vs_exists' = TRUE
    /\ vs_origin' = IF vs_exists THEN vs_origin ELSE "opened"
    /\ retriever' = [retriever EXCEPT ![p] = make_retriever]
    /\ pc' = [pc EXCEPT ![p] = "idle"]
    /\ UNCHANGED <<split_docs, split_from, observed, embedded, retrieved,
                   vs_chunks, loader_vars, chain_vars>>

\* Lines 92-97, 99-101: embed the chunks, add them to the collection under
\* the directory, return a retriever.
FromDocuments(p) ==
    /\ pc[p] = "build"
    /\ embedded' = [embedded EXCEPT ![p] = Len(split_docs[p])]
    /\ vs_exists' = TRUE
    /\ vs_chunks' = vs_chunks \o split_docs[p]
    /\ vs_origin' = "built"
    /\ retriever' = [retriever EXCEPT ![p] = make_retriever]
    /\ pc' = [pc EXCEPT ![p] = "idle"]
    /\ UNCHANGED <<split_docs, split_from, observed, retrieved, loader_vars, chain_vars>>

\* Lines 92-97 when the embedding service or the store raises: the directory
\* has been created, only the first n chunks were stored, and the exception
\* leaves load_persistent_retriever.
FromDocumentsRaises(p) ==
    /\ pc[p] = "build"
    /\ split_docs[p] # <<>>
    /\ \E n \in 0..(Len(split_docs[p]) - 1) :
        /\ vs_chunks' = vs_chunks \o SubSeq(split_docs[p], 1, n)
        /\ embedded' = [embedded EXCEPT ![p] = Len(split_docs[p])]
    /\ vs_exists' = TRUE
    /\ vs_origin' = "partial"
    /\ pc' = [pc EXCEPT ![p] = "idle"]
    /\ UNCHANGED <<split_docs, split_from, observed, retriever, retrieved, loader_vars, chain_vars>>

\* The subsequences of s of length n, as sequences.
Picks(s, n) ==
    {[i \in 1..n |-> s[f[i]]] :
        f \in {g \in [1..n -> 1..Len(s)] : \A i \in 1..(n - 1) : g[i] < g[i + 1]}}

\* retriever.invoke(query): similarity_search(query, **search_kwargs) returns
\* the k nearest stored chunks, all of them when fewer are stored.  Which
\* chunks are nearest is the embedding model's choice.
Query(p) ==
    /\ pc[p] = "idle"
    /\ retriever[p] # None
    /\ vs_exists
    /\ LET k == top_k(retriever[p])
           n == IF Len(vs_chunks) < k THEN Len(vs_chunks) ELSE k
       IN  \E docs \in Picks(vs_chunks, n) :
               retrieved' = [retrieved EXCEPT
                                ![p] = [docs |-> docs, index_size |-> Len(vs_chunks)]]
    /\ UNCHANGED <<pc, split_docs, split_from, observed, embedded, retriever,
                   vs_exists, vs_chunks, vs_origin, loader_vars, chain_vars>>

\* The operator deletes <data_root>/vectorstore between calls.
RemoveDir ==
    /\ vs_exists
    /\ \A p \in Procs : pc[p] = "idle"
    /\ vs_exists' = FALSE
    /\ vs_chunks' = <<>>
    /\ vs_origin' = "removed"
    /\ UNCHANGED <<pc, split_docs, split_from, observed, embedded, retriever,
                   retrieved, loader_vars, chain_vars>>

(***************************************************************************)
(* load_RAG_chain (lines 103-125) and load_together_chat_model (59-67).    *)
(* A template is a sequence of characters and of the placeholders          *)
(* "{context}" and "{question}"; in a value, the atom "{context}" is that  *)
(* literal text.                                                           *)
(***************************************************************************)

\* A mutant of format_docs: the chunks are joined by a single newline.
format_docs_one_newline(docs) ==
    join(<<"\n">>, [i \in 1..Len(docs) |-> docs[i].page_content])

\* Lines 112-113: "\n\n".join(doc.page_content for doc in docs)
format_docs(docs) ==
    join(<<"\n", "\n">>, [i \in 1..Len(docs) |-> docs[i].page_content])

\* str.format of a template over the input mapping: every placeholder is
\* replaced by its value, and the values are not scanned again.
format(template, input) ==
    Flatten([i \in 1..Len(template) |->
                IF template[i] = "{context}" THEN input.context
                ELSE IF template[i] = "{question}" THEN input.question
                ELSE <<template[i]>>])

\* Line 108: ("human", "{question}")
human_template == <<"{question}">>

\* Lines 105-110: ChatPromptTemplate.from_messages([("system", system_prompt),
\* ("human", "{question}")]) applied to the input mapping.
format_messages(sys, input) ==
    <<[role |-> "system", content |-> format(sys, input)],
      [role |-> "human", content |-> format(human_template, input)]>>

\* Line 65: max_retries=2
max_retries == 2

\* A mutant of the retry test: one retry too many.
should_retry_once_more(retries_taken) == max_retries - retries_taken >= 0

\* The client retries a transient failure while retries remain:
\* max_retries - retries_taken > 0.
should_retry(retries_taken) == max_retries - retries_taken > 0

MaxQuestionLen == 2
MaxRetrieved == 3

QuestionChars == {"q", " ", "{context}"}

Questions == UNION {[1..n -> QuestionChars] : n \in 0..MaxQuestionLen}

PageContents == {<<"x">>, <<"y", "\n">>, <<>>}

\* What a retriever may return for a query.
RetrieverResults ==
    UNION {[1..n -> {Doc(c, SrcA) : c \in PageContents}] : n \in 0..MaxRetrieved}

SystemPrompts == {<<"s", "{context}">>, <<"{question}", "{context}", "s">>}

ChainIdle ==
    /\ chain_pc = "idle"
    /\ question = <<>>
    /\ retriever_query = <<>>
    /\ retrieved_docs = <<>>
    /\ prompt_input = None
    /\ messages = <<>>
    /\ attempts = 0
    /\ chain_error = "none"
    /\ answer = <<>>

\* qa_chain.invoke(q)
Invoke(q) ==
    /\ chain_pc \in {"idle", "answered", "failed"}
    /\ question' = q
    /\ chain_pc' = "invoked"
    /\ retriever_query' = <<>>
    /\ retrieved_docs' = <<>>
    /\ prompt_input' = None
    /\ messages' = <<>>
    /\ attempts' = 0
    /\ chain_error' = "none"
    /\ answer' = <<>>
    /\ UNCHANGED <<system_prompt, loader_vars, index_vars>>

\* Lines 116-119: {"context": retriever | format_docs,
\*                 "question": RunnablePassthrough()}
MapInput ==
    /\ chain_pc = "invoked"
    /\ retriever_query' = question
    /\ \E docs \in RetrieverResults :
        /\ retrieved_docs' = docs
        /\ prompt_input' = [context |-> format_docs(docs), question |-> question]
    /\ chain_pc' = "mapped"
    /\ UNCHANGED <<system_prompt, question, messages, attempts, chain_error, answer,
                   loader_vars, index_vars>>

\* Line 120: | prompt
FormatPrompt ==
    /\ chain_pc = "mapped"
    /\ messages' = format_messages(system_prompt, prompt_input)
    /\ chain_pc' = "calling"
    /\ UNCHANGED <<system_prompt, question, retriever_query, retrieved_docs, prompt_input,
                   attempts, chain_error, answer, loader_vars, index_vars>>

\* Line 121: | chat_model.  One attempt of the client to get a completion:
\* it succeeds, fails for good, or fails transiently and is then retried
\* while retries remain.
ChatAttempt ==
    /\ chain_pc = "calling"
    /\ attempts' = attempts + 1
    /\ \E outcome \in {"ok", "transient", "fatal"} :
        \/ /\ outcome = "ok"
           /\ chain_pc' = "generated"
           /\ UNCHANGED chain_error
        \/ /\ outcome = "transient"
           /\ IF should_retry(attempts)
              THEN UNCHANGED <<chain_pc, chain_error>>
              ELSE chain_pc' = "failed" /\ chain_error' = "transient"
        \/ /\ outcome = "fatal"
           /\ chain_pc' = "failed"
           /\ chain_error' = "fatal"
    /\ UNCHANGED <<system_prompt, question, retriever_query, retrieved_docs, prompt_input,
                   messages, answer, loader_vars, index_vars>>

\* Line 122: | StrOutputParser()
ParseOutput ==
    /\ chain_pc = "generated"
    /\ answer' = <<"r">>
    /\ chain_pc' = "answered"
    /\ UNCHANGED <<system_prompt, question, retriever_query, retrieved_docs, prompt_input,
                   messages, attempts, chain_error, loader_vars, index_vars>>

ChainNext ==
    \/ \E q \in Questions : Invoke(q)
    \/ MapInput
    \/ FormatPrompt
    \/ ChatAttempt
    \/ ParseOutput

(***************************************************************************)
(* Initial states and specifications.                                      *)
(***************************************************************************)

LoaderIdle ==
    /\ dir = <<".">>
    /\ fs_dir = [exists |-> FALSE, entries |-> {}]
    /\ loader_pc = "unused"
    /\ documents = <<>>
    /\ loaded_files = {}
    /\ loader_error = "none"

ProcsIdle ==
    /\ pc = [p \in Procs |-> "idle"]
    /\ split_docs = [p \in Procs |-> <<>>]
    /\ split_from = [p \in Procs |-> None]
    /\ observed = [p \in Procs |-> "none"]
    /\ embedded = [p \in Procs |-> 0]
    /\ retriever = [p \in Procs |-> None]
    /\ retrieved = [p \in Procs |-> None]

\* The directory is absent, or was left by an earlier run: empty or holding
\* chunks of documents that are no longer the ones given.
IndexStart ==
    /\ ProcsIdle
    /\ \/ vs_exists = FALSE /\ vs_chunks = <<>> /\ vs_origin = "absent"
       \/ vs_exists = TRUE /\ vs_chunks = <<>> /\ vs_origin = "preexisting"
       \/ vs_exists = TRUE /\ vs_chunks = StaleChunks /\ vs_origin = "preexisting"

IndexIdle ==
    /\ ProcsIdle
    /\ vs_exists = FALSE /\ vs_chunks = <<>> /\ vs_origin = "absent"

ChainOff == system_prompt = <<>> /\ ChainIdle

LoaderInit == LoaderStart /\ IndexIdle /\ ChainOff

LoaderSpec == LoaderInit /\ [][LoaderNext]_vars

\* One process calls load_persistent_retriever again and again and queries
\* the retriever it got; the directory may be deleted between calls.
Step(p) ==
    \/ \E in \in IndexInputs : Call(p, in)
    \/ PathExists(p)
    \/ OpenStore(p)
    \/ FromDocuments(p)
    \/ FromDocumentsRaises(p)
    \/ Query(p)

Next == Step(1) \/ RemoveDir

Init == LoaderIdle /\ IndexStart /\ ChainOff

Spec == Init /\ [][Next]_vars

\* Two processes call load_persistent_retriever on the same data_root.
RaceStep(p) ==
    \/ \E in \in IndexInputs : Call(p, in)
    \/ PathExists(p)
    \/ OpenStore(p)
    \/ FromDocuments(p)
    \/ FromDocumentsRaises(p)

RaceNext == \E p \in Procs : RaceStep(p)

RaceSpec == Init /\ [][RaceNext]_vars

\* The splitting step of load_persistent_retriever on every short text.
MaxTextLen == 5
MaxChunkSize == 3

Alphabet == {"a", " ", "\n"}

Texts == UNION {[1..n -> Alphabet] : n \in 0..MaxTextLen}

SplitInputs ==
    {[documents |-> docs, chunk_size |-> S, chunk_overlap |-> O] :
        docs \in {<<Doc(t, SrcA)>> : t \in Texts}
                    \cup {<<Doc(t, SrcA), Doc(<<"a", " ", "a", "a">>, SrcB)>> : t \in Texts},
        S \in 1..MaxChunkSize, O \in 0..(MaxChunkSize - 1)}

SplitNext == \E in \in SplitInputs : in.chunk_overlap < in.chunk_size /\ Call(1, in)

SplitInit == LoaderIdle /\ IndexIdle /\ ChainOff

SplitSpec == SplitInit /\ [][SplitNext]_vars

\* A chain built by load_RAG_chain is invoked again and again.
ChainStart == system_prompt \in SystemPrompts /\ ChainIdle

ChainInit == LoaderIdle /\ IndexIdle /\ ChainStart

ChainSpec == ChainInit /\ [][ChainNext]_vars

\* The same, where an attempt of the chat client that has been started comes
\* to an end and the synchronous pipeline runs on.
FairChainSpec == ChainSpec /\ WF_vars(ChatAttempt) /\ WF_vars(ParseOutput)

(***************************************************************************)
(* Claims about load_pdf_docs.                                             *)
(***************************************************************************)

IsPrefix(s, t) == Len(s) <= Len(t) /\ SubSeq(t, 1, Len(s)) = s

Dots(s) == Cardinality({i \in 1..Len(s) : s[i] = "."})

EndsInDotPdf(name) ==
    Len(name) >= 2 /\ name[Len(name) - 1] = "." /\ name[Len(name)] = "pdf"

\* The source label src is the first two dot-separated tokens of the file
\* name, joined by a dot: a prefix of the name that stops right before the
\* name's second dot, or the whole name when it has fewer than two dots.
FirstTwoTokens(src, name) ==
    /\ IsPrefix(src, name)
    /\ IF Dots(name) <= 1
       THEN src = name
       ELSE Dots(src) = 1 /\ name[Len(src) + 1] = "."

C7_NoPdfNoDocuments ==
    (/\ loader_pc # "start"
     /\ fs_dir.exists
     /\ \A e \in fs_dir.entries : ~EndsInDotPdf(e.name))
        => /\ documents = <<>>
           /\ loaded_files = {}
           /\ loader_error = "none"

\* load_pdf_docs has returned from a directory of four non-PDF files.
C7_Witness ==
    /\ loader_pc = "returned"
    /\ fs_dir.entries = {PaperC, NotesTxt, UpperPdf, PdfTxt}
    /\ documents = <<>>

\* C8 as claimed: an empty directory and a missing path both yield an empty
\* sequence of documents and no error.
C8_EmptyOrMissingYieldsEmpty ==
    (loader_pc # "start" /\ (~fs_dir.exists \/ fs_dir.entries = {}))
        => loader_error = "none" /\ documents = <<>>

\* C8 as amended: an empty directory yields an empty sequence of documents
\* and no error; a path that does not exist raises FileNotFoundError, which
\* load_pdf_docs does not catch.
C8_EmptyYieldsEmptyMissingRaises ==
    /\ (loader_pc # "start" /\ fs_dir.exists /\ fs_dir.entries = {})
            => loader_error = "none" /\ documents = <<>> /\ loader_pc # "raised"
    /\ (loader_pc # "start" /\ ~fs_dir.exists)
            => loader_error = "FileNotFoundError" /\ loader_pc = "raised"

\* load_pdf_docs was called on a missing path and raised.
C8_Witness == ~fs_dir.exists /\ loader_pc = "raised"

(***************************************************************************)
(* Claims about load_persistent_retriever.                                 *)
(***************************************************************************)

\* C1: in a call of load_persistent_retriever that found
\* <data_root>/vectorstore existing, whatever it holds, no chunk is sent to
\* the embedding model.
C1_NoEmbeddingOnReopen ==
    \A p \in Procs : observed[p] = "present" => embedded[p] = 0

\* A call given documents has returned a retriever over a directory that an
\* earlier failed build left partially written.
C1_Witness ==
    /\ pc[1] = "idle"
    /\ observed[1] = "present"
    /\ retriever[1] # None
    /\ split_docs[1] # <<>>
    /\ vs_origin = "partial"

\* C2: the stored chunks change only in the build step of a call that found
\* the directory absent, or by the directory being deleted; a call that found
\* the directory present leaves them as they are, whatever it was given.
C2_BuildIsOneTime ==
    [][/\ vs_chunks' # vs_chunks =>
            \/ \E p \in Procs : /\ pc[p] = "build" /\ pc'[p] = "idle"
                                /\ observed[p] = "absent"
                                /\ ~vs_exists
            \/ ~vs_exists' /\ vs_chunks' = <<>>
       /\ \A p \in Procs :
            (pc[p] # "idle" /\ pc'[p] # pc[p] /\ observed'[p] = "present")
                => vs_chunks' = vs_chunks]_vars

\* After a build, a later call with other documents has returned and the
\* stored chunks are still those of the build.
C2_Witness ==
    /\ pc[1] = "idle"
    /\ vs_origin = "built"
    /\ observed[1] = "present"
    /\ split_docs[1] # <<>>
    /\ split_docs[1] # vs_chunks
    /\ vs_chunks # <<>>

\* C4 as claimed: every query of the returned retriever yields at most 3
\* chunks, and exactly 3 when the index holds at least 3.
C4_RetrieverReturnsThree ==
    \A p \in Procs :
        retrieved[p] # None =>
            /\ Len(retrieved[p].docs) <= 3
            /\ retrieved[p].index_size >= 3 => Len(retrieved[p].docs) = 3

\* C10: the existence check takes no lock: a process that evaluates it while
\* the directory is absent takes the build branch, whatever the other
\* process is doing, also when that one is already building.
C10_CheckTakesNoLock ==
    [][\A p \in Procs :
        (pc[p] = "check" /\ pc'[p] # "check" /\ ~vs_exists)
            => pc'[p] = "build" /\ observed'[p] = "absent"]_vars

\* Both processes found the directory absent, both sent their chunks to the
\* embedding model and both wrote them under the same directory.
C10_Witness ==
    /\ \A p \in Procs : pc[p] = "idle" /\ observed[p] = "absent" /\ embedded[p] > 0
    /\ vs_chunks \in {split_docs[1] \o split_docs[2], split_docs[2] \o split_docs[1]}

(***************************************************************************)
(* Claims about the chunking.                                              *)
(***************************************************************************)

ChunkCount(p) == Len(split_docs[p])

Origin(p, i) == split_from[p].origins[i]

\* Chunks i and i+1 come from the same document.
SameParent(p, i) == Origin(p, i).doc = Origin(p, i + 1).doc

\* The number of characters of the parent that chunks i and i+1 both hold.
Overlap(p, i) ==
    LET d == Origin(p, i).span[2] - Origin(p, i + 1).span[1]
    IN  IF d > 0 THEN d ELSE 0

\* Chunk i+1 starts at a clean split point: right after whitespace.
CleanBoundary(p, i) ==
    LET text == split_from[p].args.documents[Origin(p, i + 1).doc].page_content
        lo   == Origin(p, i + 1).span[1]
    IN  lo > 1 /\ text[lo - 1] \in Whitespace

SizeAndMetadata(p) ==
    \A i \in 1..ChunkCount(p) :
        /\ Len(split_docs[p][i].page_content) <= split_from[p].args.chunk_size
        /\ split_docs[p][i].metadata =
                split_from[p].args.documents[Origin(p, i).doc].metadata

\* C9 as claimed: every chunk has at most chunk_size characters and its
\* parent's metadata, and consecutive chunks of a document that are split at
\* a clean split point share at least chunk_overlap characters.
C9_OverlapAtLeast ==
    \A p \in Procs :
        split_from[p] # None =>
            /\ SizeAndMetadata(p)
            /\ \A i \in 1..(ChunkCount(p) - 1) :
                (SameParent(p, i) /\ CleanBoundary(p, i))
                    => Overlap(p, i) >= split_from[p].args.chunk_overlap

\* C9 as amended: every chunk has at most chunk_size characters and its
\* parent's metadata, and consecutive chunks of a document share at most
\* chunk_overlap characters.
C9_OverlapAtMost ==
    \A p \in Procs :
        split_from[p] # None =>
            /\ SizeAndMetadata(p)
            /\ \A i \in 1..(ChunkCount(p) - 1) :
                SameParent(p, i) => Overlap(p, i) <= split_from[p].args.chunk_overlap

\* Two documents were split, and two consecutive chunks of one of them share
\* exactly chunk_overlap > 0 characters.
C9_Witness ==
    /\ split_from[1] # None
    /\ Len(split_from[1].args.documents) = 2
    /\ split_from[1].args.chunk_overlap > 0
    /\ \E i \in 1..(ChunkCount(1) - 1) :
        /\ SameParent(1, i)
        /\ Overlap(1, i) = split_from[1].args.chunk_overlap
    /\ \E i \in 1..(ChunkCount(1) - 1) : ~SameParent(1, i)

(***************************************************************************)
(* Claims about the chain and the chat model.                              *)
(***************************************************************************)

RECURSIVE OffsetOf(_, _)
\* Where chunk i starts in a text that lists the chunks two characters apart.
OffsetOf(docs, i) ==
    IF i = 1 THEN 0 ELSE OffsetOf(docs, i - 1) + Len(docs[i - 1].page_content) + 2

\* ctx is the page contents of docs, in order, separated by blank lines.
JoinedByBlankLines(ctx, docs) ==
    /\ Len(ctx) = IF docs = <<>> THEN 0
                  ELSE OffsetOf(docs, Len(docs)) + Len(docs[Len(docs)].page_content)
    /\ \A i \in 1..Len(docs) :
        /\ \A j \in 1..Len(docs[i].page_content) :
                ctx[OffsetOf(docs, i) + j] = docs[i].page_content[j]
        /\ i > 1 => /\ ctx[OffsetOf(docs, i) - 1] = "\n"
                    /\ ctx[OffsetOf(docs, i)] = "\n"

\* C5: the retriever is queried with the question as given, the context
\* merged into the prompt is the page contents of the chunks it returned, in
\* its order, joined by blank lines, and the human message is the question
\* as given.
C5_ContextAndQuestion ==
    chain_pc \in {"calling", "generated", "answered", "failed"} =>
        /\ retriever_query = question
        /\ JoinedByBlankLines(prompt_input.context, retrieved_docs)
        /\ prompt_input.question = question
        /\ Len(messages) = 2
        /\ messages[1].role = "system"
        /\ messages[2] = [role |-> "human", content |-> question]

\* The prompt was built for a question with a blank and a brace in it and
\* three retrieved chunks, one of them empty and one ending in a newline.
C5_Witness ==
    /\ chain_pc = "calling"
    /\ question = <<" ", "{context}">>
    /\ Len(retrieved_docs) = 3
    /\ retrieved_docs[1].page_content = <<"y", "\n">>
    /\ retrieved_docs[2].page_content = <<>>
    /\ messages[2].content = question

\* C6 as claimed: a request is attempted at most 2 times.
C6_AtMostTwoAttempts == attempts <= 2

\* C6 as amended: a request that keeps failing transiently is retried at
\* most 2 times, that is attempted at most 3 times, before the failure is
\* reported, and it is reported only after the third attempt; the retrying
\* always ends with a response or a reported failure.
C6_AtMostTwoRetries ==
    /\ [](attempts <= 3)
    /\ []((chain_pc = "failed" /\ chain_error = "transient") => attempts = 3)
    /\ (chain_pc = "calling") ~> (chain_pc \in {"answered", "failed"})

\* A transient failure was reported after three attempts.
C6_Witness == chain_pc = "failed" /\ chain_error = "transient" /\ attempts = 3

====
